---- MODULE Spec2Model ----
(***************************************************************************)
(* A model of the Bayeux client of dkmadigan/python-bayeux-client:         *)
(* BayeuxClient (bayeux_client.py), BayeuxMessageSender                    *)
(* (bayeux_message_sender.py) and BayeuxMessageReceiver                    *)
(* (bayeux_message_receiver.py), together with the parts of the Twisted    *)
(* reactor and of threading.Timer that the client relies on.               *)
(***************************************************************************)
EXTENDS Integers, Sequences, FiniteSets, Bags, TLC

(***************************************************************************)
(* Program constants (bayeux_constants.py)                                 *)
(***************************************************************************)
HANDSHAKE_CHANNEL == "/meta/handshake"
CONNECT_CHANNEL == "/meta/connect"
DISCONNECT_CHANNEL == "/meta/disconnect"
SUBSCRIBE_CHANNEL == "/meta/subscribe"
UNSUBSCRIBE_CHANNEL == "/meta/unsubscribe"
HANDSHAKE_RETRY_INTERVAL == 5
CONNECT_FAILURE_THRESHOLD == 3

(***************************************************************************)
(* Bounds of the model                                                     *)
(***************************************************************************)
\* the number of outbound messages a behaviour may build: under Spec, under
\* SpecSubscribe and under SpecSession
MaxSends == 3
MaxSubscribeSends == 4
MaxSessionSends == 5
\* the number of response streams the transport delivers at the same time
MaxStreams == 1
\* the client whose server also answers with a JSON object that is no batch
MaxMalformedSends == 3
\* the client whose responses are delivered two at a time
MaxInterleavedSends == 3
MaxInterleavedStreams == 2

\* application channels and application callbacks, and the (channel, callback)
\* pairs the application registers and deregisters
AppChannels == {"/members/demo", "/chat/demo"}
AppCallbacks == {"cb", "cb2"}
Registrations == {<<"/members/demo", "cb">>, <<"/members/demo", "cb2">>, <<"/chat/demo", "cb">>}
\* client ids a server hands out
ClientIds == {"abc"}
\* advice.interval values (milliseconds) a server sends
AdviceIntervals == {0, 2000, 2500}

\* the value of client_id before a handshake response sets it; the sender
\* formats it into the message text, where it reads "-1"
UnsetClientId == "-1"
\* marks a field that a JSON object does not carry
Absent == "absent"
AbsentInterval == -1

SystemChannels == {HANDSHAKE_CHANNEL, CONNECT_CHANNEL, DISCONNECT_CHANNEL}
AllChannels == SystemChannels \cup AppChannels \cup {SUBSCRIBE_CHANNEL, UNSUBSCRIBE_CHANNEL}
SystemCallbacks == {"_handshake_cb", "_connect_cb", "_disconnect_cb"}

(***************************************************************************)
(* Outbound messages, as BayeuxMessageSender formats them                  *)
(***************************************************************************)
OutMsg(channel, clientId, id, subscription) ==
    [channel |-> channel, clientId |-> clientId, id |-> id, subscription |-> subscription]

(***************************************************************************)
(* Inbound message objects and their wire form.  A response body is a      *)
(* sequence of bytes; the model keeps the brackets and commas of a JSON    *)
(* array apart ("[", "]", ",") and takes the text of one object "{...}" as *)
(* one unit, so that a body can be cut between any two of these units.     *)
(***************************************************************************)
InMsg(channel, successful, clientId, interval) ==
    [channel |-> channel, successful |-> successful, clientId |-> clientId, interval |-> interval]

NoMembers == InMsg(Absent, FALSE, Absent, AbsentInterval)

Tok(t) == [t |-> t, m |-> NoMembers]

EncodeObject(m) == <<[t |-> "{}", m |-> m]>>

RECURSIVE EncodeItems(_)
EncodeItems(batch) ==
    IF Len(batch) = 0 THEN <<>>
    ELSE IF Len(batch) = 1 THEN EncodeObject(batch[1])
    ELSE EncodeObject(batch[1]) \o <<Tok(",")>> \o EncodeItems(Tail(batch))

\* the body of a well-formed response: a JSON array of message objects
EncodeBatch(batch) == <<Tok("[")>> \o EncodeItems(batch) \o <<Tok("]")>>

(***************************************************************************)
(* json.loads, restricted to arrays and objects.  A parsed value is        *)
(* [t |-> "obj", m |-> members, items |-> <<>>] or                         *)
(* [t |-> "arr", m |-> NoMembers, items |-> the parsed elements].          *)
(* ParseValue reads one value that starts at position i and returns the    *)
(* position after it; json.loads raises ValueError unless the buffer is    *)
(* exactly one value.                                                      *)
(***************************************************************************)
ParseFail == [ok |-> FALSE, val |-> [t |-> "none", m |-> NoMembers, items |-> <<>>], next |-> 0]

RECURSIVE ParseValue(_, _)
RECURSIVE ParseElements(_, _, _)

ParseValue(toks, i) ==
    IF i > Len(toks) THEN ParseFail
    ELSE IF toks[i].t = "{}" THEN
        [ok |-> TRUE, val |-> [t |-> "obj", m |-> toks[i].m, items |-> <<>>], next |-> i + 1]
    ELSE IF toks[i].t = "[" THEN
        IF i + 1 <= Len(toks) /\ toks[i+1].t = "]"
        THEN [ok |-> TRUE, val |-> [t |-> "arr", m |-> NoMembers, items |-> <<>>], next |-> i + 2]
        ELSE ParseElements(toks, i + 1, <<>>)
    ELSE ParseFail

\* the elements of an array after its "[": value ("," value)* "]"
ParseElements(toks, i, acc) ==
    LET v == ParseValue(toks, i) IN
    IF ~v.ok THEN ParseFail
    ELSE IF v.next > Len(toks) THEN ParseFail
    ELSE IF toks[v.next].t = "]" THEN
        [ok |-> TRUE, val |-> [t |-> "arr", m |-> NoMembers, items |-> Append(acc, v.val)], next |-> v.next + 1]
    ELSE IF toks[v.next].t = "," THEN ParseElements(toks, v.next + 1, Append(acc, v.val))
    ELSE ParseFail

json_loads(toks) ==
    LET v == ParseValue(toks, 1) IN
    IF v.ok /\ v.next = Len(toks) + 1 THEN v ELSE ParseFail

(***************************************************************************)
(* State                                                                   *)
(***************************************************************************)
VARIABLES
    \* BayeuxClient
    started, destroyed, connected, is_handshook,
    timer,                  \* self.timer: NoTimer or the Timer object last stored
    retry_connect_count, connect_interval, subscriptions,
    \* BayeuxMessageSender
    client_id, msg_id,
    \* BayeuxMessageReceiver
    listeners, buf,
    \* threading.Timer objects that are still waiting but that self.timer no
    \* longer refers to, and the timer threads that are running their function
    orphans, threads,
    \* twisted reactor: reactor.running, whether reactor.stop has run, the
    \* threads spawned with target=reactor.run that have not entered it yet,
    \* and whether reactor.stop waits in the queue of reactor.callFromThread
    reactor_running, reactor_stopped, launching, stop_queued,
    \* transport: the requests handed to the reactor that have neither been
    \* answered nor failed, and the response bodies in delivery
    inflight, streams,
    \* history: messages built so far, reactor threads spawned so far, connect
    \* transport failures since the last connect success / start / re-handshake,
    \* and what the last step did: the messages it handed to send_message,
    \* the listener calls it made, the exception it ended with
    \* byDestroy holds the numbers of the Disconnect requests destroy() sent,
    \* maxSentId the greatest id a message built so far carries
    sendCount, launches, consecFails, byDestroy, sentNow, notified, raised,
    maxSentId,
    \* the number of messages the behaviour may build, the number of response
    \* bodies the transport delivers at a time, and whether the server also
    \* answers with a bare JSON object in place of a batch
    limit, streamLimit, bareBodies

vars == <<started, destroyed, connected, is_handshook, timer, retry_connect_count,
          connect_interval, subscriptions, client_id, msg_id, listeners, buf,
          orphans, threads, reactor_running, reactor_stopped, launching, stop_queued,
          inflight, streams, sendCount, launches, consecFails, byDestroy, sentNow,
          notified, raised, maxSentId, limit, streamLimit, bareBodies>>

NoTimer == [kind |-> "none", interval |-> 0, alive |-> FALSE]
\* Timer(interval, fn, [errback]) after start(): alive until it fires or is cancelled
NewTimer(kind, interval) == [kind |-> kind, interval |-> interval, alive |-> TRUE]

\* the state the operations of the client, the sender and the receiver work on
St == [started |-> started, destroyed |-> destroyed, connected |-> connected,
       is_handshook |-> is_handshook, timer |-> timer,
       retry_connect_count |-> retry_connect_count,
       connect_interval |-> connect_interval, subscriptions |-> subscriptions,
       client_id |-> client_id, msg_id |-> msg_id, listeners |-> listeners,
       orphans |-> orphans, reactor_running |-> reactor_running,
       launching |-> launching, stop_queued |-> stop_queued, inflight |-> inflight,
       sendCount |-> sendCount,
       launches |-> launches, consecFails |-> consecFails, byDestroy |-> byDestroy,
       sentNow |-> <<>>, notified |-> <<>>, raised |-> "none"]

(***************************************************************************)
(* twisted reactor and threading.Timer, as far as the client uses them     *)
(***************************************************************************)
\* reactor.callFromThread(f): f joins the queue of the reactor thread, which
\* runs it in its next iteration.  A do_send is the request it issues, which
\* is outstanding from here on; a call queued behind reactor.stop never runs.
callFromThread(s, call) ==
    IF s.stop_queued THEN s
    ELSE IF call.t = "stop" THEN [s EXCEPT !.stop_queued = TRUE]
    ELSE [s EXCEPT !.inflight = @ \cup {call.req}]

NoReq == [msg |-> OutMsg(Absent, Absent, 0, Absent), errback |-> "none", n |-> 0]

\* self.timer = Timer(...); self.timer.start(): the Timer stored before keeps
\* waiting when it has neither fired nor been cancelled
StartTimer(s, kind, interval) ==
    [s EXCEPT !.timer = NewTimer(kind, interval),
              !.orphans = IF s.timer.alive
                          THEN @ (+) SetToBag({[kind |-> s.timer.kind, interval |-> s.timer.interval]})
                          ELSE @]

(***************************************************************************)
(* BayeuxMessageSender                                                     *)
(***************************************************************************)
get_next_id(s) == [s EXCEPT !.msg_id = @ + 1]

\* send_message: do_send is handed to the reactor thread; the response or
\* the transport error arrives later
send_message(s, message, errback) ==
    LET s1 == [s EXCEPT !.sendCount = @ + 1, !.sentNow = Append(@, message)]
    IN callFromThread(s1, [t |-> "send",
                           req |-> [msg |-> message, errback |-> errback, n |-> s1.sendCount]])

sender_connect(s, errback) ==
    LET s1 == get_next_id(s)
    IN send_message(s1, OutMsg(CONNECT_CHANNEL, s.client_id, s1.msg_id, Absent), errback)

sender_disconnect(s, errback) ==
    LET s1 == get_next_id(s)
    IN send_message(s1, OutMsg(DISCONNECT_CHANNEL, s.client_id, s1.msg_id, Absent), errback)

sender_handshake(s, errback) ==
    LET s1 == get_next_id(s)
    IN send_message(s1, OutMsg(HANDSHAKE_CHANNEL, Absent, s1.msg_id, Absent), errback)

\* a sender that drops the client id of the handshake response
set_client_id_dropped(s, cid) == s

set_client_id(s, cid) == [s EXCEPT !.client_id = cid]

sender_subscribe(s, subscription) ==
    LET s1 == get_next_id(s)
    IN send_message(s1, OutMsg(SUBSCRIBE_CHANNEL, s.client_id, s1.msg_id, subscription), "none")

\* unsubscribe formats self.clientId, an attribute the sender does not have:
\* the AttributeError is raised before get_next_id and send_message run
sender_unsubscribe(s, subscription) == [s EXCEPT !.raised = "AttributeError"]

(***************************************************************************)
(* BayeuxMessageReceiver: the listener registry                            *)
(***************************************************************************)
receiver_register(s, event, callback) ==
    [s EXCEPT !.listeners[event] = @ \cup {callback}]

\* deregister returns len(self.listeners[event]) after the removal
receiver_deregister(s, event, callback) ==
    [s EXCEPT !.listeners[event] = @ \ {callback}]

(***************************************************************************)
(* BayeuxClient: the public operations.  Each runs under self.lock.        *)
(***************************************************************************)
_stop_reactor(s) ==
    IF s.reactor_running
    THEN callFromThread(s, [t |-> "stop", req |-> NoReq])
    ELSE s

\* a destroy that also stops the reactor when it has sent the Disconnect
destroy_stops_at_once(s) ==
    LET s1 == [s EXCEPT !.destroyed = TRUE] IN
    IF s1.reactor_running THEN
        IF s1.started /\ s1.connected
        THEN LET s2 == sender_disconnect(s1, "_disconnect_error")
             IN _stop_reactor([s2 EXCEPT !.byDestroy = @ \cup {s2.sendCount}])
        ELSE IF ~s1.started /\ s1.connected THEN s1
        ELSE _stop_reactor(s1)
    ELSE s1

destroy(s) ==
    LET s1 == [s EXCEPT !.destroyed = TRUE] IN
    IF s1.reactor_running THEN
        IF s1.started /\ s1.connected
        THEN LET s2 == sender_disconnect(s1, "_disconnect_error")
             IN [s2 EXCEPT !.byDestroy = @ \cup {s2.sendCount}]
        ELSE IF ~s1.started /\ s1.connected THEN s1
        ELSE _stop_reactor(s1)
    ELSE s1

\* a start that sends its Handshake whether or not the client is started
start_again(s) ==
    LET s1 == [s EXCEPT !.started = TRUE, !.connected = FALSE, !.consecFails = 0]
        s2 == IF ~s1.reactor_running
              THEN [s1 EXCEPT !.launching = @ + 1, !.launches = @ + 1]
              ELSE s1
    IN sender_handshake(s2, "_handshake_error")

start(s) ==
    IF ~s.started THEN
        LET s1 == [s EXCEPT !.started = TRUE, !.connected = FALSE, !.consecFails = 0]
            s2 == IF ~s1.reactor_running
                  THEN [s1 EXCEPT !.launching = @ + 1, !.launches = @ + 1]
                  ELSE s1
        IN sender_handshake(s2, "_handshake_error")
    ELSE s

\* a stop that leaves the handshaken flag as it is
stop_keeps_handshook(s) ==
    IF s.started THEN
        LET s1 == [s EXCEPT !.started = FALSE,
                            !.retry_connect_count = 0, !.consecFails = 0]
            s2 == IF s1.timer # NoTimer THEN [s1 EXCEPT !.timer = NoTimer] ELSE s1
        IN sender_disconnect(s2, "_disconnect_error")
    ELSE s

\* self.timer.cancel(): a Timer that has not fired yet never will
stop(s) ==
    IF s.started THEN
        LET s1 == [s EXCEPT !.is_handshook = FALSE, !.started = FALSE,
                            !.retry_connect_count = 0, !.consecFails = 0]
            s2 == IF s1.timer # NoTimer THEN [s1 EXCEPT !.timer = NoTimer] ELSE s1
        IN sender_disconnect(s2, "_disconnect_error")
    ELSE s

\* a register that leaves the channel out of the subscription set until the
\* handshake has succeeded
register_unsubscribed(s, id, callback) ==
    LET s1 == IF s.is_handshook THEN
                  IF id \notin s.subscriptions THEN
                      LET s2 == [s EXCEPT !.subscriptions = @ \cup {id}]
                      IN IF s2.started THEN sender_subscribe(s2, id) ELSE s2
                  ELSE s
              ELSE s
    IN receiver_register(s1, id, callback)

register(s, id, callback) ==
    LET s1 == IF s.is_handshook THEN
                  IF id \notin s.subscriptions THEN
                      LET s2 == [s EXCEPT !.subscriptions = @ \cup {id}]
                      IN IF s2.started THEN sender_subscribe(s2, id) ELSE s2
                  ELSE s
              ELSE [s EXCEPT !.subscriptions = @ \cup {id}]
    IN receiver_register(s1, id, callback)

\* a deregister that leaves the channel of the last listener subscribed
deregister_keeps_subscription(s, id, callback) ==
    LET s1 == receiver_deregister(s, id, callback) IN
    IF Cardinality(s1.listeners[id]) = 0 /\ id \notin s1.subscriptions
    THEN [s1 EXCEPT !.raised = "KeyError"]
    ELSE s1

\* set.remove raises KeyError for a channel that is not subscribed
deregister(s, id, callback) ==
    LET s1 == receiver_deregister(s, id, callback) IN
    IF Cardinality(s1.listeners[id]) = 0 THEN
        IF id \notin s1.subscriptions THEN [s1 EXCEPT !.raised = "KeyError"]
        ELSE LET s2 == [s1 EXCEPT !.subscriptions = @ \ {id}]
             IN IF s2.started THEN sender_unsubscribe(s2, id) ELSE s2
    ELSE s1

(***************************************************************************)
(* BayeuxClient: the protocol callbacks.  Each runs under self.lock.       *)
(***************************************************************************)
\* the subscription set in the order the iteration of the Python set yields
\* it; ord lists the application channels in that order
IterationOrders ==
    {o \in [1..Cardinality(AppChannels) -> AppChannels] : \A c \in AppChannels : \E i \in DOMAIN o : o[i] = c}

RECURSIVE InOrder(_, _)
InOrder(ord, set) ==
    IF Len(ord) = 0 THEN <<>>
    ELSE IF Head(ord) \in set THEN <<Head(ord)>> \o InOrder(Tail(ord), set)
    ELSE InOrder(Tail(ord), set)

RECURSIVE SubscribeAll(_, _)
SubscribeAll(s, events) ==
    IF Len(events) = 0 THEN s
    ELSE SubscribeAll(sender_subscribe(s, Head(events)), Tail(events))

\* a _connect_cb that adopts an advised interval of 0 as well
_connect_cb_adopts_zero(s, data) ==
    IF s.started THEN
        IF data.successful THEN
            LET s1 == [s EXCEPT !.retry_connect_count = 0, !.connected = TRUE,
                                !.consecFails = 0]
                s2 == IF data.interval # AbsentInterval
                      THEN [s1 EXCEPT !.connect_interval = data.interval \div 1000]
                      ELSE s1
            IN StartTimer(s2, "connect", s2.connect_interval)
        ELSE s
    ELSE s

_connect_cb(s, data) ==
    IF s.started THEN
        IF data.successful THEN
            LET s1 == [s EXCEPT !.retry_connect_count = 0, !.connected = TRUE,
                                !.consecFails = 0]
                s2 == IF data.interval # AbsentInterval /\ data.interval # 0
                      THEN [s1 EXCEPT !.connect_interval = data.interval \div 1000]
                      ELSE s1
            IN StartTimer(s2, "connect", s2.connect_interval)
        ELSE s
    ELSE s

\* a _connect_error that compares the counter with <= : it gives up one
\* failure late
_connect_error_late(s) ==
    IF s.started THEN
        LET s1 == [s EXCEPT !.retry_connect_count = @ + 1, !.connected = FALSE,
                            !.consecFails = IF @ >= CONNECT_FAILURE_THRESHOLD THEN 1 ELSE @ + 1]
        IN IF s1.retry_connect_count <= CONNECT_FAILURE_THRESHOLD
           THEN StartTimer(s1, "connect", s1.connect_interval)
           ELSE sender_handshake([s1 EXCEPT !.is_handshook = FALSE, !.retry_connect_count = 0],
                                 "_handshake_error")
    ELSE s

_connect_error(s) ==
    IF s.started THEN
        LET s1 == [s EXCEPT !.retry_connect_count = @ + 1, !.connected = FALSE,
                            !.consecFails = IF @ >= CONNECT_FAILURE_THRESHOLD THEN 1 ELSE @ + 1]
        IN IF s1.retry_connect_count < CONNECT_FAILURE_THRESHOLD
           THEN StartTimer(s1, "connect", s1.connect_interval)
           ELSE sender_handshake([s1 EXCEPT !.is_handshook = FALSE, !.retry_connect_count = 0],
                                 "_handshake_error")
    ELSE s

_disconnect_cb(s, data) ==
    LET s1 == [s EXCEPT !.connected = FALSE]
    IN IF s1.destroyed THEN _stop_reactor(s1) ELSE s1

_disconnect_error(s) ==
    LET s1 == [s EXCEPT !.connected = FALSE]
    IN IF s1.destroyed THEN _stop_reactor(s1) ELSE s1

\* data['clientId'] raises KeyError when the response carries no clientId
_handshake_cb(s, data, ord) ==
    IF s.started /\ ~s.destroyed THEN
        IF data.successful THEN
            LET s1 == [s EXCEPT !.is_handshook = TRUE] IN
            IF data.clientId = Absent THEN [s1 EXCEPT !.raised = "KeyError"]
            ELSE LET s2 == set_client_id(s1, data.clientId)
                     s3 == sender_connect(s2, "_connect_error")
                 IN SubscribeAll(s3, InOrder(ord, s3.subscriptions))
        ELSE StartTimer([s EXCEPT !.is_handshook = FALSE], "handshake", HANDSHAKE_RETRY_INTERVAL)
    ELSE s

\* a _handshake_error that retries for a client that is not started
_handshake_error_unguarded(s) ==
    IF ~s.destroyed
    THEN StartTimer([s EXCEPT !.is_handshook = FALSE], "handshake", HANDSHAKE_RETRY_INTERVAL)
    ELSE s

_handshake_error(s) ==
    IF s.started /\ ~s.destroyed
    THEN StartTimer([s EXCEPT !.is_handshook = FALSE], "handshake", HANDSHAKE_RETRY_INTERVAL)
    ELSE s

(***************************************************************************)
(* BayeuxMessageReceiver: decoding and dispatch                            *)
(***************************************************************************)
\* the application callbacks of a listener set, in a fixed order: the order
\* in which a set is iterated is open, and an application callback changes
\* no state of the client
CallbackOrder == <<"cb", "cb2">>

\* calls one listener of the receiver with the message
CallListener(s, listener, data, ord) ==
    LET s1 == [s EXCEPT !.notified = Append(@, [listener |-> listener, data |-> data])] IN
    IF listener = "_handshake_cb" THEN _handshake_cb(s1, data, ord)
    ELSE IF listener = "_connect_cb" THEN _connect_cb(s1, data)
    ELSE IF listener = "_disconnect_cb" THEN _disconnect_cb(s1, data)
    ELSE s1

RECURSIVE NotifyEach(_, _, _, _)
NotifyEach(s, ls, data, ord) ==
    IF Len(ls) = 0 \/ s.raised # "none" THEN s
    ELSE NotifyEach(CallListener(s, Head(ls), data, ord), Tail(ls), data, ord)

notify(s, event, data, ord) ==
    NotifyEach(s, InOrder(<<"_handshake_cb", "_connect_cb", "_disconnect_cb">> \o CallbackOrder,
                          s.listeners[event]), data, ord)

\* for msg in data: if 'channel' in msg: self.notify(msg['channel'], msg);
\* an element that is itself a list contains no 'channel'
RECURSIVE DispatchItems(_, _, _)
DispatchItems(s, items, ord) ==
    IF Len(items) = 0 \/ s.raised # "none" THEN s
    ELSE LET msg == Head(items)
             s1 == IF msg.t = "obj" /\ msg.m.channel # Absent
                   THEN notify(s, msg.m.channel, msg.m, ord)
                   ELSE s
         IN DispatchItems(s1, Tail(items), ord)

\* the body of connectionLost between json.loads and the clearing of the
\* buffer.  Iterating a dict yields its keys, and msg['channel'] on the key
\* 'channel' raises TypeError.
DispatchData(s, parsed, ord) ==
    IF ~parsed.ok THEN s
    ELSE IF parsed.val.t = "arr" THEN DispatchItems(s, parsed.val.items, ord)
    ELSE IF parsed.val.m.channel # Absent THEN [s EXCEPT !.raised = "TypeError"]
    ELSE s

(***************************************************************************)
(* What a server answers                                                   *)
(***************************************************************************)
HandshakeResponse(successful, cid) == InMsg(HANDSHAKE_CHANNEL, successful, cid, AbsentInterval)
ConnectResponse(successful, interval) == InMsg(CONNECT_CHANNEL, successful, Absent, interval)
Event(channel) == InMsg(channel, FALSE, Absent, AbsentInterval)

\* the batches a server answers a request on the given channel with
Batches(channel) ==
    IF channel = HANDSHAKE_CHANNEL THEN
        {<<HandshakeResponse(TRUE, cid)>> : cid \in ClientIds}
        \cup {<<HandshakeResponse(FALSE, Absent)>>}
    ELSE IF channel = CONNECT_CHANNEL THEN
        {<<ConnectResponse(TRUE, iv)>> : iv \in AdviceIntervals \cup {AbsentInterval}}
        \cup {<<ConnectResponse(FALSE, AbsentInterval)>>}
        \cup {<<Event("/chat/demo"), ConnectResponse(TRUE, AbsentInterval)>>,
              <<Event("/members/demo"), Event("/chat/demo")>>}
    ELSE IF channel = DISCONNECT_CHANNEL THEN
        {<<InMsg(DISCONNECT_CHANNEL, TRUE, Absent, AbsentInterval)>>,
         <<NoMembers, InMsg(DISCONNECT_CHANNEL, TRUE, Absent, AbsentInterval)>>}
    ELSE
        {<<InMsg(channel, TRUE, Absent, AbsentInterval)>>}

\* the bytes of a response body: the encoded batch, or the encoded batch cut
\* short before its closing bracket
Body(batch, wellformed) ==
    IF wellformed THEN EncodeBatch(batch)
    ELSE SubSeq(EncodeBatch(batch), 1, Len(EncodeBatch(batch)) - 1)

\* what a server answers a request on the given channel with: a well-formed
\* batch, or a body that is no JSON text
Responses(channel) ==
    {[batch |-> b, wellformed |-> TRUE] : b \in Batches(channel)}
    \cup {[batch |-> <<>>, wellformed |-> FALSE]}

\* a server that answers with the one message object of its response and
\* no enclosing array: JSON text, but no batch
BareResponses(channel) ==
    {[batch |-> b, wellformed |-> FALSE] : b \in {x \in Batches(channel) : Len(x) = 1}}

\* the bytes of the body of a response
BodyOf(r) ==
    IF r.wellformed \/ r.batch = <<>>
    THEN Body(r.batch, r.wellformed)
    ELSE EncodeItems(r.batch)

(***************************************************************************)
(* Initial state: BayeuxClient.__init__                                    *)
(***************************************************************************)
Constructed ==
    /\ started = FALSE /\ destroyed = FALSE /\ connected = FALSE /\ is_handshook = FALSE
    /\ timer = NoTimer
    /\ retry_connect_count = 0
    /\ connect_interval = 0
    /\ subscriptions = {}
    /\ client_id = UnsetClientId
    /\ msg_id = 0
    /\ listeners = [c \in AllChannels |->
                      IF c = HANDSHAKE_CHANNEL THEN {"_handshake_cb"}
                      ELSE IF c = CONNECT_CHANNEL THEN {"_connect_cb"}
                      ELSE IF c = DISCONNECT_CHANNEL THEN {"_disconnect_cb"}
                      ELSE {}]
    /\ buf = <<>>
    /\ orphans = EmptyBag /\ threads = EmptyBag
    /\ reactor_running = FALSE /\ reactor_stopped = FALSE /\ launching = 0
    /\ stop_queued = FALSE
    /\ inflight = {} /\ streams = {}
    /\ sendCount = 0 /\ launches = 0 /\ consecFails = 0 /\ byDestroy = {}
    /\ sentNow = <<>> /\ notified = <<>> /\ raised = "none"
    /\ maxSentId = 0

\* the server of this client answers with batches or with no JSON text, one
\* response body at a time
BatchServer == streamLimit = MaxStreams /\ bareBodies = FALSE

Init == Constructed /\ limit = MaxSends /\ BatchServer

(***************************************************************************)
(* Actions                                                                 *)
(***************************************************************************)
\* the greatest of the ids of the messages and of n
MaxId(msgs, n) ==
    CHOOSE x \in {n} \cup {msgs[i].id : i \in DOMAIN msgs} :
        \A y \in {n} \cup {msgs[i].id : i \in DOMAIN msgs} : y <= x

\* the state after an operation of the client
Apply(s) ==
    /\ s.sendCount <= limit
    /\ started' = s.started /\ destroyed' = s.destroyed /\ connected' = s.connected
    /\ is_handshook' = s.is_handshook /\ timer' = s.timer
    /\ retry_connect_count' = s.retry_connect_count
    /\ connect_interval' = s.connect_interval /\ subscriptions' = s.subscriptions
    /\ client_id' = s.client_id /\ msg_id' = s.msg_id /\ listeners' = s.listeners
    /\ orphans' = s.orphans /\ launching' = s.launching /\ stop_queued' = s.stop_queued
    /\ inflight' = s.inflight
    /\ sendCount' = s.sendCount /\ launches' = s.launches /\ consecFails' = s.consecFails
    /\ byDestroy' = s.byDestroy
    /\ sentNow' = s.sentNow /\ notified' = s.notified /\ raised' = s.raised
    /\ maxSentId' = MaxId(s.sentNow, maxSentId)
    /\ UNCHANGED <<limit, streamLimit, bareBodies>>

\* a step of the reactor or of a timer sends nothing, calls no listener and
\* leaves the fields of the client alone
Quiet ==
    /\ sentNow' = <<>> /\ notified' = <<>> /\ raised' = "none"
    /\ UNCHANGED <<limit, streamLimit, bareBodies, byDestroy, maxSentId>>
ClientUnchanged ==
    UNCHANGED <<started, destroyed, connected, is_handshook, timer, retry_connect_count,
                connect_interval, subscriptions, client_id, listeners, consecFails>>

\* the application calls the public operations from its own threads
Start ==
    /\ Apply(start(St))
    /\ UNCHANGED <<buf, threads, reactor_running, reactor_stopped, streams>>

Stop ==
    /\ Apply(stop(St))
    /\ UNCHANGED <<buf, threads, reactor_running, reactor_stopped, streams>>

Destroy ==
    /\ Apply(destroy(St))
    /\ UNCHANGED <<buf, threads, reactor_running, reactor_stopped, streams>>

RegisterCall(id, callback) ==
    /\ Apply(register(St, id, callback))
    /\ UNCHANGED <<buf, threads, reactor_running, reactor_stopped, streams>>

Register == \E r \in Registrations : RegisterCall(r[1], r[2])

DeregisterCall(id, callback) ==
    /\ Apply(deregister(St, id, callback))
    /\ UNCHANGED <<buf, threads, reactor_running, reactor_stopped, streams>>

Deregister == \E r \in Registrations : DeregisterCall(r[1], r[2])

\* a thread spawned by start() enters reactor.run(); run raises when the
\* reactor is already running or has been stopped before
ReactorRun ==
    /\ launching > 0
    /\ launching' = launching - 1
    /\ reactor_running' = (reactor_running \/ ~reactor_stopped)
    /\ Quiet /\ ClientUnchanged
    /\ UNCHANGED <<msg_id, buf, orphans, threads, reactor_stopped, stop_queued, inflight,
                   streams, sendCount, launches>>

\* the reactor thread runs a queued reactor.stop
ReactorStop ==
    /\ reactor_running /\ stop_queued
    /\ reactor_running' = FALSE /\ reactor_stopped' = TRUE
    /\ stop_queued' = FALSE
    /\ Quiet /\ ClientUnchanged
    /\ UNCHANGED <<msg_id, buf, orphans, threads, launching, inflight, streams,
                   sendCount, launches>>

\* the errback that send_message.error calls
Errback(s, errback) ==
    IF errback = "_handshake_error" THEN _handshake_error(s)
    ELSE IF errback = "_connect_error" THEN _connect_error(s)
    ELSE IF errback = "_disconnect_error" THEN _disconnect_error(s)
    ELSE s

\* send_message.error: the request fails in the transport
TransportErrorOf(req) ==
    /\ reactor_running
    /\ req \in inflight
    /\ Apply(Errback([St EXCEPT !.inflight = @ \ {req}], req.errback))
    /\ UNCHANGED <<buf, threads, reactor_running, reactor_stopped, streams>>

TransportError == \E req \in inflight : TransportErrorOf(req)

\* send_message.cb: the response arrives and its body is delivered to the
\* receiver, response.deliverBody(self.receiver).  A stream is exclusive while
\* no other body has been in delivery together with it.
Respond ==
    \E req \in inflight :
      \E r \in Responses(req.msg.channel)
                 \cup (IF bareBodies THEN BareResponses(req.msg.channel) ELSE {}) :
        /\ reactor_running
        /\ Cardinality(streams) < streamLimit
        /\ inflight' = inflight \ {req}
        /\ streams' = {[st EXCEPT !.exclusive = FALSE] : st \in streams}
                       \cup {[n |-> req.n, channel |-> req.msg.channel,
                              batch |-> r.batch, wellformed |-> r.wellformed,
                              rest |-> BodyOf(r),
                              exclusive |-> streams = {}]}
        /\ Quiet /\ ClientUnchanged
        /\ UNCHANGED <<msg_id, buf, orphans, threads, reactor_running, reactor_stopped,
                       launching, stop_queued, sendCount, launches>>

\* a dataReceived that keeps only the bytes of the last fragment
dataReceived_overwrites ==
    \E st \in streams :
      \E k \in 1..Len(st.rest) :
        /\ reactor_running
        /\ buf' = SubSeq(st.rest, 1, k)
        /\ streams' = (streams \ {st}) \cup {[st EXCEPT !.rest = SubSeq(@, k + 1, Len(@))]}
        /\ Quiet /\ ClientUnchanged
        /\ UNCHANGED <<msg_id, orphans, threads, reactor_running, reactor_stopped,
                       launching, stop_queued, inflight, sendCount, launches>>

\* BayeuxMessageReceiver.dataReceived with the next k bytes of a body
dataReceived ==
    \E st \in streams :
      \E k \in 1..Len(st.rest) :
        /\ reactor_running
        /\ buf' = buf \o SubSeq(st.rest, 1, k)
        /\ streams' = (streams \ {st}) \cup {[st EXCEPT !.rest = SubSeq(@, k + 1, Len(@))]}
        /\ Quiet /\ ClientUnchanged
        /\ UNCHANGED <<msg_id, orphans, threads, reactor_running, reactor_stopped,
                       launching, stop_queued, inflight, sendCount, launches>>

\* BayeuxMessageReceiver.connectionLost: the body of stream st is complete.
\* The buffer is cleared unless a listener raised something other than
\* ValueError.
connectionLostOf(st, ord) ==
    LET s == DispatchData(St, json_loads(buf), ord) IN
    /\ reactor_running
    /\ st \in streams
    /\ Len(st.rest) = 0
    /\ Apply(s)
    /\ buf' = IF s.raised = "none" THEN <<>> ELSE buf
    /\ streams' = streams \ {st}
    /\ UNCHANGED <<threads, reactor_running, reactor_stopped>>

connectionLost == \E st \in streams, ord \in IterationOrders : connectionLostOf(st, ord)

(***************************************************************************)
(* threading.Timer.  A Timer that fires runs sender.connect or             *)
(* sender.handshake on its own thread, outside self.lock: between the read *)
(* of msg_id in get_next_id and the write of msg_id + 1 other threads run. *)
(***************************************************************************)
TimerThread(kind, cid, v) == [kind |-> kind, cid |-> cid, v |-> v]

\* the Timer that self.timer refers to fires: its thread evaluates
\* self.client_id and reads self.msg_id
TimerFire ==
    /\ timer.alive
    /\ timer' = [timer EXCEPT !.alive = FALSE]
    /\ threads' = threads (+) SetToBag({TimerThread(timer.kind, client_id, msg_id)})
    /\ Quiet
    /\ UNCHANGED <<started, destroyed, connected, is_handshook, retry_connect_count,
                   connect_interval, subscriptions, client_id, listeners, consecFails,
                   msg_id, buf, orphans, reactor_running, reactor_stopped, launching,
                   stop_queued, inflight, streams, sendCount, launches>>

\* a Timer that self.timer no longer refers to fires
OrphanFire ==
    \E o \in BagToSet(orphans) :
        /\ orphans' = orphans (-) SetToBag({o})
        /\ threads' = threads (+) SetToBag({TimerThread(o.kind, client_id, msg_id)})
        /\ Quiet /\ ClientUnchanged
        /\ UNCHANGED <<msg_id, buf, reactor_running, reactor_stopped, launching,
                       stop_queued, inflight, streams, sendCount, launches>>

\* the timer thread writes self.msg_id, returns it, formats the message and
\* hands it to send_message
ThreadSendOf(th) ==
    LET s == [St EXCEPT !.msg_id = th.v + 1] IN
    /\ BagIn(th, threads)
    /\ threads' = threads (-) SetToBag({th})
    /\ Apply(IF th.kind = "connect"
             THEN send_message(s, OutMsg(CONNECT_CHANNEL, th.cid, s.msg_id, Absent), "_connect_error")
             ELSE send_message(s, OutMsg(HANDSHAKE_CHANNEL, Absent, s.msg_id, Absent), "_handshake_error"))
    /\ UNCHANGED <<buf, reactor_running, reactor_stopped, streams>>

ThreadSend == \E th \in BagToSet(threads) : ThreadSendOf(th)

Next ==
    \/ Start
    \/ Stop
    \/ Destroy
    \/ Register
    \/ Deregister
    \/ ReactorRun
    \/ ReactorStop
    \/ TransportError
    \/ Respond
    \/ dataReceived
    \/ connectionLost
    \/ TimerFire
    \/ OrphanFire
    \/ ThreadSend

Spec == Init /\ [][Next]_vars

(***************************************************************************)
(* The client of an application that starts it once and never stops or     *)
(* destroys it, as test/bayeux_client_test.py does                         *)
(***************************************************************************)
InitSubscribe == Constructed /\ limit = MaxSubscribeSends /\ BatchServer

NextSubscribe ==
    \/ Start
    \/ Register
    \/ Deregister
    \/ ReactorRun
    \/ TransportError
    \/ Respond
    \/ dataReceived
    \/ connectionLost
    \/ TimerFire
    \/ ThreadSend

SpecSubscribe == InitSubscribe /\ [][NextSubscribe]_vars

(***************************************************************************)
(* The client of an application that registers no listener                 *)
(***************************************************************************)
InitSession == Constructed /\ limit = MaxSessionSends /\ BatchServer

NextSession ==
    \/ Start
    \/ Stop
    \/ Destroy
    \/ ReactorRun
    \/ ReactorStop
    \/ TransportError
    \/ Respond
    \/ dataReceived
    \/ connectionLost
    \/ TimerFire
    \/ OrphanFire
    \/ ThreadSend

SpecSession == InitSession /\ [][NextSession]_vars

(***************************************************************************)
(* The client of an application that starts it once, with a server that    *)
(* also answers with a bare JSON object                                    *)
(***************************************************************************)
InitMalformed ==
    Constructed /\ limit = MaxMalformedSends /\ streamLimit = MaxStreams /\ bareBodies = TRUE

NextMalformed ==
    \/ Start
    \/ ReactorRun
    \/ TransportError
    \/ Respond
    \/ dataReceived
    \/ connectionLost
    \/ TimerFire
    \/ ThreadSend

SpecMalformed == InitMalformed /\ [][NextMalformed]_vars

(***************************************************************************)
(* The client of an application that starts and stops it, with a transport *)
(* that delivers the bodies of two responses at a time                     *)
(***************************************************************************)
InitInterleaved ==
    /\ Constructed
    /\ limit = MaxInterleavedSends
    /\ streamLimit = MaxInterleavedStreams
    /\ bareBodies = FALSE

NextInterleaved ==
    \/ Start
    \/ Stop
    \/ ReactorRun
    \/ TransportError
    \/ Respond
    \/ dataReceived
    \/ connectionLost
    \/ TimerFire
    \/ OrphanFire
    \/ ThreadSend

SpecInterleaved == InitInterleaved /\ [][NextInterleaved]_vars

(***************************************************************************)
(* Properties                                                              *)
(***************************************************************************)
\* the message objects connectionLost hands to notify when the buffer is b
Dispatched(b) ==
    LET parsed == json_loads(b)
        IsMessage(v) == v.t = "obj" /\ v.m.channel # Absent
        objects == IF parsed.ok /\ parsed.val.t = "arr"
                   THEN SelectSeq(parsed.val.items, IsMessage)
                   ELSE <<>>
    IN [i \in DOMAIN objects |-> objects[i].m]

\* the buffer holds one handshake response with successful=true and a clientId
HandshakeSuccessBuffered ==
    /\ Len(Dispatched(buf)) = 1
    /\ Dispatched(buf)[1].channel = HANDSHAKE_CHANNEL
    /\ Dispatched(buf)[1].successful
    /\ Dispatched(buf)[1].clientId # Absent

\* how many of the messages are a Subscribe for the channel
SubscribesFor(msgs, c) ==
    Cardinality({i \in DOMAIN msgs : msgs[i].channel = SUBSCRIBE_CHANNEL /\ msgs[i].subscription = c})

\* C1: whatever register and deregister calls came before, when a handshake
\* success is processed by a started client the subscription set is the set
\* of application channels that have a listener, and the step sends one
\* Subscribe for each of them and no other Subscribe.
C1_SubscribeReplay ==
    [][\A st \in streams, ord \in IterationOrders :
         (started /\ ~destroyed /\ HandshakeSuccessBuffered /\ connectionLostOf(st, ord))
         => /\ subscriptions = {c \in AppChannels : listeners[c] # {}}
            /\ \A c \in AllChannels :
                 SubscribesFor(sentNow', c) = IF c \in subscriptions THEN 1 ELSE 0
            /\ \A i \in DOMAIN sentNow' :
                 sentNow'[i].channel = SUBSCRIBE_CHANNEL => sentNow'[i].subscription \in subscriptions
      ]_vars

\* a handshake success has just been answered with a Connect and the
\* Subscribes of both application channels, while cb2 is not registered
C1_Witness ==
    /\ is_handshook
    /\ subscriptions = AppChannels
    /\ listeners["/members/demo"] = {"cb"}
    /\ Len(sentNow) = 3
    /\ SubscribesFor(sentNow, "/members/demo") = 1
    /\ SubscribesFor(sentNow, "/chat/demo") = 1

\* C2: a handshake response with successful=true and clientId=X that a
\* started, not destroyed client processes makes it handshaken, makes X the
\* sender's client id and sends a Connect carrying X first, before every
\* Subscribe of the replay.
C2_HandshakeSuccess ==
    [][\A st \in streams, ord \in IterationOrders :
         (started /\ ~destroyed /\ HandshakeSuccessBuffered /\ connectionLostOf(st, ord))
         => LET X == Dispatched(buf)[1].clientId IN
            /\ is_handshook'
            /\ client_id' = X
            /\ Len(sentNow') >= 1
            /\ sentNow'[1].channel = CONNECT_CHANNEL
            /\ sentNow'[1].clientId = X
            /\ \A i \in 2..Len(sentNow') : sentNow'[i].channel = SUBSCRIBE_CHANNEL
      ]_vars

\* a handshake success has just been processed: the Connect with the new
\* client id went out ahead of a Subscribe
C2_Witness ==
    /\ is_handshook
    /\ client_id \in ClientIds
    /\ Len(sentNow) = 2
    /\ sentNow[1].channel = CONNECT_CHANNEL /\ sentNow[1].clientId = client_id
    /\ sentNow[2].channel = SUBSCRIBE_CHANNEL

\* C3: while the client stays started, each of the first
\* CONNECT_FAILURE_THRESHOLD - 1 consecutive connect transport failures
\* schedules another Connect, and the CONNECT_FAILURE_THRESHOLD-th sends a
\* Handshake instead, clears handshaken and leaves the retry counter at zero.
C3_ConnectFailures ==
    [][\A req \in inflight :
         (started /\ req.errback = "_connect_error" /\ TransportErrorOf(req))
         => IF consecFails' < CONNECT_FAILURE_THRESHOLD
            THEN /\ timer' = NewTimer("connect", connect_interval)
                 /\ sentNow' = <<>>
            ELSE /\ consecFails' = CONNECT_FAILURE_THRESHOLD
                 /\ Len(sentNow') = 1
                 /\ sentNow'[1].channel = HANDSHAKE_CHANNEL
                 /\ timer' = timer
                 /\ ~is_handshook'
                 /\ retry_connect_count' = 0
      ]_vars

\* the third connect failure in a row has just sent a Handshake
C3_Witness ==
    /\ started
    /\ consecFails = CONNECT_FAILURE_THRESHOLD
    /\ Len(sentNow) = 1 /\ sentNow[1].channel = HANDSHAKE_CHANNEL
    /\ ~is_handshook
    /\ retry_connect_count = 0

\* a handshake or connect exchange that has not resolved yet, or a retry or
\* heartbeat that is still to send its request
RecoveryPending ==
    \/ \E req \in inflight : req.msg.channel \in {HANDSHAKE_CHANNEL, CONNECT_CHANNEL}
    \/ \E st \in streams : st.channel \in {HANDSHAKE_CHANNEL, CONNECT_CHANNEL}
    \/ timer.alive
    \/ orphans # EmptyBag
    \/ threads # EmptyBag

\* C4: while the client is started and not destroyed, recovery never stalls:
\* there is always an outstanding handshake or connect request or a pending
\* retry or heartbeat timer.
C4_RecoveryNeverStalls == (started /\ ~destroyed) => RecoveryPending

\* C5: a deregister that removes the last listener of a channel while the
\* client is started sends exactly one Unsubscribe for that channel and
\* changes neither the subscription nor the listeners of another channel.
C5_LastDeregisterUnsubscribes ==
    [][\A r \in Registrations :
         (started /\ listeners[r[1]] = {r[2]} /\ DeregisterCall(r[1], r[2]))
         => /\ Len(sentNow') = 1
            /\ sentNow'[1].channel = UNSUBSCRIBE_CHANNEL
            /\ sentNow'[1].subscription = r[1]
            /\ \A c \in AllChannels \ {r[1]} :
                 /\ (c \in subscriptions') = (c \in subscriptions)
                 /\ listeners'[c] = listeners[c]
      ]_vars

\* the request with number n has neither been answered nor failed
Outstanding(n) ==
    \/ \E req \in inflight : req.n = n
    \/ \E st \in streams : st.n = n

\* the step runs _disconnect_error or _disconnect_cb
DisconnectCallbackRuns ==
    \/ \E req \in inflight : req.errback = "_disconnect_error" /\ TransportErrorOf(req)
    \/ /\ \E i \in DOMAIN Dispatched(buf) : Dispatched(buf)[i].channel = DISCONNECT_CHANNEL
       /\ \E st \in streams, ord \in IterationOrders : connectionLostOf(st, ord)

SessionState ==
    <<started, destroyed, connected, is_handshook, timer, retry_connect_count,
      connect_interval, subscriptions, client_id, msg_id, listeners>>

\* C7: start() on a started client changes no session state and sends no
\* message; start() on a client that is not started sets started, clears
\* connected and sends exactly one Handshake.
C7_Start ==
    [][Start => IF started
                THEN UNCHANGED SessionState /\ sentNow' = <<>>
                ELSE /\ started' /\ ~connected'
                     /\ Len(sentNow') = 1 /\ sentNow'[1].channel = HANDSHAKE_CHANNEL
      ]_vars

\* start() has just sent the Handshake, and the thread of the reactor that it
\* spawned has not entered reactor.run yet
C7_Witness ==
    /\ started /\ ~connected
    /\ Len(sentNow) = 1 /\ sentNow[1].channel = HANDSHAKE_CHANNEL
    /\ launching = 1

\* no Timer waits to fire
NoPendingTimer == ~timer.alive /\ orphans = EmptyBag

\* C8: stop() on a client that is not started changes no session state and
\* sends nothing; stop() on a started client leaves started=false,
\* handshaken=false, the retry counter 0 and no pending timer, sends exactly
\* one Disconnect and does not stop the event loop.
C8_Stop ==
    [][Stop => IF ~started
               THEN UNCHANGED SessionState /\ sentNow' = <<>>
               ELSE /\ ~started' /\ ~is_handshook' /\ retry_connect_count' = 0
                    /\ NoPendingTimer'
                    /\ Len(sentNow') = 1 /\ sentNow'[1].channel = DISCONNECT_CHANNEL
                    /\ UNCHANGED <<reactor_running, reactor_stopped, stop_queued>>
      ]_vars

\* the positions of the connect responses in the buffered batch
ConnectResponsesBuffered ==
    {i \in DOMAIN Dispatched(buf) : Dispatched(buf)[i].channel = CONNECT_CHANNEL}

\* C9, as claimed: a successful Connect response with advice.interval = N,
\* N >= 0, that a started client processes sets the connect interval to
\* N/1000 seconds and schedules the next Connect after it; one without
\* advice.interval leaves the connect interval as it was.
C9_IntervalIsAdvice ==
    [][\A st \in streams, ord \in IterationOrders, i \in ConnectResponsesBuffered :
         (started /\ Dispatched(buf)[i].successful /\ connectionLostOf(st, ord))
         => LET N == Dispatched(buf)[i].interval IN
            IF N # AbsentInterval
            THEN /\ connect_interval' * 1000 = N
                 /\ timer' = NewTimer("connect", connect_interval')
            ELSE connect_interval' = connect_interval
      ]_vars

\* C9, amended: a successful Connect response with advice.interval = N, N > 0,
\* that a started client processes sets the connect interval to the whole
\* seconds of N/1000, rounded down; one with advice.interval = 0 or without
\* advice.interval leaves the connect interval as it was; either way the next
\* Connect is scheduled after the resulting interval.
C9_IntervalIsWholeSeconds ==
    [][\A st \in streams, ord \in IterationOrders, i \in ConnectResponsesBuffered :
         (started /\ Dispatched(buf)[i].successful /\ connectionLostOf(st, ord))
         => LET N == Dispatched(buf)[i].interval IN
            /\ connect_interval' = IF N # AbsentInterval /\ N > 0
                                   THEN CHOOSE q \in 0..N : q * 1000 <= N /\ N < (q + 1) * 1000
                                   ELSE connect_interval
            /\ timer' = NewTimer("connect", connect_interval')
      ]_vars

\* a connect success has adopted two seconds and scheduled the next Connect
C9_Witness ==
    /\ started /\ connected
    /\ connect_interval = 2
    /\ timer = NewTimer("connect", 2)

\* how often the step called the listener with the message
Calls(l, m) == Cardinality({i \in DOMAIN notified' : notified'[i] = [listener |-> l, data |-> m]})

\* C10: when the body of a well-formed batch, delivered in any number of
\* fragments in order with no other body in delivery meanwhile, is complete,
\* every message of the batch that carries a channel is delivered once to
\* every listener of its channel, no other call is made, and the buffer is
\* empty afterwards.
C10_BatchDeliveredOnce ==
    [][\A st \in streams, ord \in IterationOrders :
         (st.wellformed /\ st.exclusive /\ connectionLostOf(st, ord))
         => /\ \A i \in DOMAIN st.batch, l \in SystemCallbacks \cup AppCallbacks :
                 Calls(l, st.batch[i]) =
                     IF st.batch[i].channel # Absent /\ l \in listeners[st.batch[i].channel]
                     THEN 1 ELSE 0
            /\ \A j \in DOMAIN notified' : \E i \in DOMAIN st.batch : notified'[j].data = st.batch[i]
            /\ buf' = <<>>
      ]_vars

\* a batch with the events of both application channels has just been
\* dispatched: three listener calls, and the buffer is empty
C10_Witness ==
    /\ buf = <<>>
    /\ Len(notified) = 3
    /\ \E i, j \in DOMAIN notified :
         /\ notified[i].data.channel = "/members/demo"
         /\ notified[j].data.channel = "/chat/demo"

\* C11: every message carries an id greater than the id of every message
\* built before it, those of the same step included.
C11_IdsStrictlyIncrease ==
    [][\A i \in DOMAIN sentNow' :
         /\ sentNow'[i].id > maxSentId
         /\ \A j \in 1..(i - 1) : sentNow'[j].id < sentNow'[i].id
      ]_vars

\* C12: no Connect, Disconnect, Subscribe or Unsubscribe message is sent with
\* the initial, unset client id.
C12_ClientIdSetBeforeUse ==
    \A i \in DOMAIN sentNow :
        sentNow[i].channel # HANDSHAKE_CHANNEL => sentNow[i].clientId # UnsetClientId

\* C13: once destroy() has been called the destroyed flag stays set, no
\* thread is spawned to run the event loop and the event loop does not
\* start running.
C13_NoLoopAfterDestroy ==
    [][destroyed => /\ destroyed'
                    /\ launches' = launches
                    /\ (~reactor_running => ~reactor_running')
      ]_vars

\* the numbers of the requests on the channels that are neither answered nor
\* failed
OutstandingOn(channels) ==
    {req.n : req \in {r \in inflight : r.msg.channel \in channels}}
    \cup {st.n : st \in {t \in streams : t.channel \in channels}}

\* C14, in its finite form: when destroy() returns from a call made after
\* start() has spawned the event loop, the stop of the loop is under way: the
\* loop has stopped, or its stop is queued, or a Disconnect is outstanding
\* whose callback will ask for it.
C14_DestroyLeadsToStop ==
    [][(launches > 0 /\ Destroy)
       => \/ reactor_stopped'
          \/ stop_queued'
          \/ OutstandingOn({DISCONNECT_CHANNEL})' # {}
      ]_vars

\* C15: at most one Handshake or Connect request is outstanding.
C15_OneHandshakeOrConnect ==
    Cardinality(OutstandingOn({HANDSHAKE_CHANNEL, CONNECT_CHANNEL})) <= 1

\* C16: the only Timer that is scheduled and has neither fired nor been
\* cancelled is the one self.timer refers to.
C16_OneTimer == orphans = EmptyBag

\* the buffer holds a handshake or connect response and no disconnect response
HandshakeOrConnectBuffered ==
    /\ \E i \in DOMAIN Dispatched(buf) :
         Dispatched(buf)[i].channel \in {HANDSHAKE_CHANNEL, CONNECT_CHANNEL}
    /\ \A i \in DOMAIN Dispatched(buf) : Dispatched(buf)[i].channel # DISCONNECT_CHANNEL

\* the step delivers a handshake or connect response or transport error
HandshakeOrConnectDelivered ==
    \/ \E req \in inflight :
         req.errback \in {"_handshake_error", "_connect_error"} /\ TransportErrorOf(req)
    \/ /\ HandshakeOrConnectBuffered
       /\ \E st \in streams, ord \in IterationOrders : connectionLostOf(st, ord)

\* C17: a handshake or connect response or transport error delivered to a
\* client that is not started changes none of handshaken, connected, retry
\* counter, connect interval, client id and subscription set, schedules no
\* timer and sends no message.
C17_StaleCallbackIgnored ==
    [][(~started /\ HandshakeOrConnectDelivered)
       => /\ UNCHANGED <<is_handshook, connected, retry_connect_count, connect_interval,
                         client_id, subscriptions>>
          /\ UNCHANGED <<timer, orphans>>
          /\ sentNow' = <<>>
      ]_vars

\* _connect_cb has just been called with a connect success for a client
\* that is not started
C17_Witness ==
    /\ ~started
    /\ \E i \in DOMAIN notified :
         /\ notified[i].listener = "_connect_cb"
         /\ notified[i].data.successful

\* C18: a thread that runs the event loop is spawned only by start(), and
\* only when none has been spawned before.
C18_LaunchedOnce ==
    [][launches' # launches => (Start /\ launches = 0)]_vars

\* C19: when the event loop stops, destroy() has been called and no
\* Disconnect request is outstanding.
C19_StopAfterDisconnects ==
    [][(~reactor_stopped /\ reactor_stopped')
       => (destroyed /\ OutstandingOn({DISCONNECT_CHANNEL}) = {})
      ]_vars

\* C20: an application channel is in the subscription set exactly when its
\* listener set is not empty.
C20_SubscribedIffListened ==
    \A c \in AppChannels : c \in subscriptions <=> listeners[c] # {}

\* deregister has just removed the last listener of /members/demo from a
\* started client, while /chat/demo keeps its listener
C20_Witness ==
    /\ started
    /\ raised = "AttributeError"
    /\ listeners["/members/demo"] = {} /\ "/members/demo" \notin subscriptions
    /\ listeners["/chat/demo"] = {"cb"} /\ "/chat/demo" \in subscriptions

DecodesAsBatch(b) == json_loads(b).ok /\ json_loads(b).val.t = "arr"

\* C21: when the buffer at the end of a stream does not decode as a batch,
\* no listener is called, no field of the session changes, nothing is sent,
\* and the buffer is empty for the next response.
C21_UndecodableBodyDropped ==
    [][\A st \in streams, ord \in IterationOrders :
         (~DecodesAsBatch(buf) /\ connectionLostOf(st, ord))
         => /\ notified' = <<>>
            /\ UNCHANGED SessionState
            /\ sentNow' = <<>>
            /\ buf' = <<>>
      ]_vars

\* C22: when the body of a well-formed batch is complete after another body
\* has been in delivery together with it, the bodies in delivery being
\* well-formed batches, the buffer holds exactly the bytes of that batch,
\* every message of the batch that carries a channel is delivered once to
\* every listener of its channel, and no other call is made.
C22_InterleavedBodiesKeptApart ==
    [][\A st \in streams, ord \in IterationOrders :
         (/\ ~st.exclusive
          /\ \A t \in streams : t.wellformed
          /\ connectionLostOf(st, ord))
         => /\ buf = EncodeBatch(st.batch)
            /\ \A i \in DOMAIN st.batch, l \in SystemCallbacks \cup AppCallbacks :
                 Calls(l, st.batch[i]) =
                     IF st.batch[i].channel # Absent /\ l \in listeners[st.batch[i].channel]
                     THEN 1 ELSE 0
            /\ \A j \in DOMAIN notified' : \E i \in DOMAIN st.batch : notified'[j].data = st.batch[i]
      ]_vars

====
